---------------------------- MODULE Spec2Model ----------------------------
(***************************************************************************)
(* Model of the Pokedex storage driver: the registry client (client.go),   *)
(* the key handle (PokedexKey), the response helpers and the path adapter  *)
(* (pokedex.go) with its buffered Writer.                                  *)
(*                                                                         *)
(* The Pokedex service itself is not part of the repository.  It is        *)
(* modelled by the Srv* operators, from what the client code expects of    *)
(* each response and what the repository's test suites assert about it.    *)
(* The transport is reliable: a request always gets the response the       *)
(* service state determines.                                               *)
(*                                                                         *)
(* Strings are sequences of one-character strings, byte payloads are       *)
(* sequences of small integers.                                            *)
(***************************************************************************)
EXTENDS Integers, Sequences, FiniteSets, TLC

VARIABLES
    store,    \* service: id -> key record (registry row + stored bytes)
    nextId,   \* service: next id handed out by a create
    keys,     \* client: the PokedexKey handles held by the caller (slots)
    w,        \* adapter: the FileWriter obtained from Driver.Writer
    last      \* the last call made and what it returned

vars == <<store, nextId, keys, w, last>>

----------------------------------------------------------------------------
(* Bounds of the model *)

\* ids the service may hand out over a run
MaxId == 2
\* longest content a key may hold
MaxLen == 2
\* size of the Writer's buffer: pokedex.go:21 sets 20 MiB, scaled down here
defaultChunkSize == 1

Ids == 1..MaxId
Bytes == {1, 2}
CTypes == {"text/plain", "application/octet-stream"}
\* the caller keeps one key handle (slot 1) or drops the key a call returns (0)
Slots == {1}

SeqsUpTo(S, n) == UNION {[1..k -> S] : k \in 0..n}
Payloads == SeqsUpTo(Bytes, MaxLen)

----------------------------------------------------------------------------
(* Strings *)

HasPrefix(s, p) == Len(p) <= Len(s) /\ SubSeq(s, 1, Len(p)) = p

RECURSIVE TrimLeft(_, _)
TrimLeft(s, c) ==
    IF s # <<>> /\ Head(s) = c THEN TrimLeft(Tail(s), c) ELSE s

RECURSIVE TrimRight(_, _)
TrimRight(s, c) ==
    IF s # <<>> /\ s[Len(s)] = c THEN TrimRight(SubSeq(s, 1, Len(s) - 1), c) ELSE s

RootDirectory == <<"r", "/">>

makePath(path) == TrimLeft(TrimRight(RootDirectory, "/") \o path, "/")

\* the paths the host asks for
Paths == { <<"/", "a">>, <<"/", "a", "b">> }
Names == { makePath(p) : p \in Paths }
Prefixes == { <<>>, <<"/">>, <<"r", "/">>, <<"r", "/", "a">>, <<"r", "/", "a", "b">> }

----------------------------------------------------------------------------
(* Errors *)

Err(kind) == [kind |-> kind, status |-> 0]
Nil == Err("nil")
KeyDoesNotExist == Err("KeyDoesNotExist")
PathNotFoundError == Err("PathNotFoundError")
RootPrefixError == Err("prefix must not be the root")
AlreadyClosed == Err("already closed")
AlreadyCommitted == Err("already committed")
AlreadyCancelled == Err("already cancelled")
ErrShortWrite == Err("short write")
RequestError(status) == [kind |-> "RequestError", status |-> status]

CheckHTTPResponse(status, expectedStatus) ==
    IF status # expectedStatus THEN RequestError(status) ELSE Nil

----------------------------------------------------------------------------
(* The Pokedex service *)

NoRec == [live |-> FALSE, name |-> <<>>, has |-> FALSE, data |-> <<>>, ctype |-> ""]

SrvLookup(st, name) ==
    IF \E i \in Ids : st[i].live /\ st[i].name = name
    THEN CHOOSE i \in Ids : st[i].live /\ st[i].name = name
    ELSE 0

\* GET keys/{name}: 200 with the record, or 200 with the body "null" when no
\* live record has that name (id 0 stands for the "null" body)
SrvGetKey(st, name) == [status |-> 200, id |-> SrvLookup(st, name), st |-> st, nid |-> 0]

\* POST keys/{name}.  On a name that already has a live record the service's
\* behaviour is not specified: `mode` ranges over the outcomes
\*   "conflict": the request is refused,
\*   "existing": the live record is returned unchanged.
SrvCreateKey(st, nid, name, mode) ==
    LET old == SrvLookup(st, name)
        rec == [live |-> TRUE, name |-> name, has |-> FALSE, data |-> <<>>, ctype |-> ""]
    IN  IF old = 0
        THEN [status |-> 200, id |-> nid, st |-> [st EXCEPT ![nid] = rec], nid |-> nid + 1]
        ELSE IF mode = "conflict" THEN [status |-> 409, id |-> 0, st |-> st, nid |-> nid]
        ELSE [status |-> 200, id |-> old, st |-> st, nid |-> nid]

\* GET keys?prefix=: the live records whose name starts with prefix, by id
SrvList(st, prefix) == { i \in Ids : st[i].live /\ HasPrefix(st[i].name, prefix) }

\* DELETE keys?prefix=: removes what SrvList would return, reports the count
SrvDeletePrefix(st, prefix) ==
    LET hit == SrvList(st, prefix)
    IN  [status |-> 200, n |-> Cardinality(hit),
         st |-> [i \in Ids |-> IF i \in hit THEN NoRec ELSE st[i]]]

\* DELETE keys/{name}: removes the live record of that name.  The status for
\* a name without a record is not documented: `missing` is 200 or 404.
SrvDeleteKey(st, name, missing) ==
    LET i == SrvLookup(st, name)
    IN  IF i = 0 THEN [status |-> missing, st |-> st]
        ELSE [status |-> 200, st |-> [st EXCEPT ![i] = NoRec]]

\* PUT keys/{name}?key_name=&new_key_name=: a rename of the metadata row.
\* The rename rejects overwriting a live record (pokedex.go:352).
SrvRename(st, name, newName) ==
    LET i == SrvLookup(st, name)
    IN  IF i = 0 THEN [status |-> 404, st |-> st]
        ELSE IF SrvLookup(st, newName) # 0 THEN [status |-> 409, st |-> st]
        ELSE [status |-> 200, st |-> [st EXCEPT ![i].name = newName]]

\* GET files/{id} with Range: bytes={offset}-
\*   404 when the key holds no content (or the id is gone),
\*   416 when offset is at or beyond the content's length,
\*   206 with the bytes from offset on otherwise.
SrvRead(st, id, offset) ==
    IF ~st[id].live \/ ~st[id].has THEN [status |-> 404, body |-> <<>>]
    ELSE IF offset >= Len(st[id].data) THEN [status |-> 416, body |-> <<>>]
    ELSE [status |-> 206, body |-> SubSeq(st[id].data, offset + 1, Len(st[id].data))]

\* POST files/{id}, body p.  hdr is the X-Overwrite-Offset header, NoHeader
\* when the request carries none.  Without the header the body becomes the
\* content.  With it the body is written from that offset on: an append when
\* the offset is the current length; in place when it is smaller, where
\* whether the old tail beyond the body survives is not documented
\* (keepTail); refused when it is beyond the current length.
NoHeader == -1

SrvWrite(st, id, hdr, p, ctype, keepTail) ==
    LET old == st[id].data
        end == hdr + Len(p)
        new == IF hdr = NoHeader THEN p
               ELSE SubSeq(old, 1, hdr) \o p \o
                    (IF keepTail /\ end < Len(old) THEN SubSeq(old, end + 1, Len(old)) ELSE <<>>)
    IN  IF ~st[id].live THEN [status |-> 404, st |-> st, len |-> 0]
        ELSE IF hdr # NoHeader /\ hdr > Len(old) THEN [status |-> 416, st |-> st, len |-> 0]
        ELSE [status |-> 200, len |-> Len(new),
              st |-> [st EXCEPT ![id] = [@ EXCEPT !.has = TRUE, !.data = new, !.ctype = ctype]]]

----------------------------------------------------------------------------
(* PokedexKey: the handle, a detached copy of a record *)

NoKey == [valid |-> FALSE, Id |-> 0, Name |-> <<>>, has |-> FALSE,
          ContentLength |-> 0, ContentType |-> "", Checksum |-> 0, deleted |-> FALSE]

\* the checksum the service reports for a content (an opaque digest)
RECURSIVE ChecksumOf(_)
ChecksumOf(data) == IF data = <<>> THEN 0 ELSE (Head(data) + 2 * ChecksumOf(Tail(data))) % 3

\* json.Unmarshal of a record + Initialize: a handle with deleted = false
KeyOfRecord(st, id) ==
    [valid |-> TRUE, Id |-> id, Name |-> st[id].name, has |-> st[id].has,
     ContentLength |-> Len(st[id].data), ContentType |-> st[id].ctype,
     Checksum |-> ChecksumOf(st[id].data), deleted |-> FALSE]

\* PokedexKeyFromJson without the test for "null"
PokedexKeyFromJsonNoNull(st, id) ==
    IF id = 0 THEN [NoKey EXCEPT !.valid = TRUE] ELSE KeyOfRecord(st, id)

\* PokedexKeyFromJson: the body "null" gives the nil key
PokedexKeyFromJson(st, id) == IF id = 0 THEN NoKey ELSE KeyOfRecord(st, id)

----------------------------------------------------------------------------
(* PokedexClient *)

\* RequestKey for GET and POST: [err, key, st, nid, nreq]
RequestKey(resp) ==
    LET respErr == CheckHTTPResponse(resp.status, 200)
    IN  [err |-> respErr,
         key |-> IF respErr # Nil THEN NoKey ELSE PokedexKeyFromJson(resp.st, resp.id),
         st |-> resp.st, nid |-> resp.nid, nreq |-> 1]

GetKey(st, name) == RequestKey(SrvGetKey(st, name))

CreateKey(st, nid, name, mode) == RequestKey(SrvCreateKey(st, nid, name, mode))

\* the guard of PokedexClient.Delete
IsRootPrefixNone(prefix) == FALSE

IsRootPrefix(prefix) == prefix = <<>> \/ prefix = <<"/">>

\* PokedexClient.Delete: [err, n, st, nreq]
ClientDelete(st, prefix) ==
    IF IsRootPrefix(prefix)
    THEN [err |-> RootPrefixError, n |-> 0, st |-> st, nreq |-> 0]
    ELSE LET resp == SrvDeletePrefix(st, prefix)
             respErr == CheckHTTPResponse(resp.status, 200)
         IN  IF respErr # Nil THEN [err |-> respErr, n |-> 0, st |-> st, nreq |-> 1]
             ELSE [err |-> Nil, n |-> resp.n, st |-> resp.st, nreq |-> 1]

----------------------------------------------------------------------------
(* PokedexKey operations *)

\* checkExists without the test of the deleted flag
checkExistsRemoteOnly(k, st) ==
    IF GetKey(st, k.Name).err # Nil THEN [err |-> GetKey(st, k.Name).err, nreq |-> 1]
    ELSE IF ~GetKey(st, k.Name).key.valid THEN [err |-> KeyDoesNotExist, nreq |-> 1]
    ELSE [err |-> Nil, nreq |-> 1]

\* checkExists without the fetch by name
checkExistsLocalOnly(k, st) ==
    IF k.deleted THEN [err |-> KeyDoesNotExist, nreq |-> 0] ELSE [err |-> Nil, nreq |-> 0]

\* checkExists: [err, nreq]
checkExists(k, st) ==
    IF k.deleted THEN [err |-> KeyDoesNotExist, nreq |-> 0]
    ELSE LET got == GetKey(st, k.Name)
         IN  IF got.err # Nil THEN [err |-> got.err, nreq |-> 1]
             ELSE IF ~got.key.valid THEN [err |-> KeyDoesNotExist, nreq |-> 1]
             ELSE [err |-> Nil, nreq |-> 1]

\* the first byte asked for by the Range header, "bytes=%d-"
RangeStartNext(offset) == offset + 1

RangeStart(offset) == offset

\* the special case for Range not satisfiable
RangeNotSatisfiableNever(status) == FALSE

RangeNotSatisfiableOr404(status) == status \in {416, 404}

RangeNotSatisfiable(status) == status = 416

\* GetContentsAsStream, the stream drained: [err, data, nreq, ndata]
GetContentsAsStream(k, st, offset) ==
    LET chk == checkExists(k, st)
        resp == SrvRead(st, k.Id, RangeStart(offset))
        respErr == CheckHTTPResponse(resp.status, 206)
    IN  IF chk.err # Nil
        THEN [err |-> chk.err, data |-> <<>>, nreq |-> chk.nreq, ndata |-> 0]
        ELSE IF RangeNotSatisfiable(resp.status)
        THEN [err |-> Nil, data |-> <<>>, nreq |-> chk.nreq + 1, ndata |-> 1]
        ELSE IF respErr # Nil
        THEN [err |-> respErr, data |-> <<>>, nreq |-> chk.nreq + 1, ndata |-> 1]
        ELSE [err |-> Nil, data |-> resp.body, nreq |-> chk.nreq + 1, ndata |-> 1]

\* GetContentsAsBytes
GetContentsAsBytes(k, st) == GetContentsAsStream(k, st, 0)

\* the X-Overwrite-Offset header SetContentsFromStream sends
OverwriteOffset(offset) == IF offset # 0 THEN offset ELSE NoHeader

\* the count SetContentsFromStream returns
WrittenCountTotal(contentLength, offset) == contentLength

WrittenCount(contentLength, offset) == contentLength - offset

\* SetContentsFromStream, once the request is answered: the handle takes the
\* length, type and checksum of metaKey, the count is computed from it
SetContentsDone(k, st, offset, chk, resp, metaKey) ==
    IF CheckHTTPResponse(resp.status, 200) # Nil
    THEN [err |-> CheckHTTPResponse(resp.status, 200), n |-> 0, key |-> k, st |-> st,
          nreq |-> chk.nreq + 1, ndata |-> 1]
    ELSE [err |-> Nil, n |-> WrittenCount(metaKey.ContentLength, offset),
          key |-> [k EXCEPT !.has = metaKey.has, !.ContentLength = metaKey.ContentLength,
                            !.ContentType = metaKey.ContentType,
                            !.Checksum = metaKey.Checksum],
          st |-> resp.st, nreq |-> chk.nreq + 1, ndata |-> 1]

SetContentsSend(k, st, offset, chk, resp) ==
    IF chk.err # Nil
    THEN [err |-> chk.err, n |-> 0, key |-> k, st |-> st, nreq |-> chk.nreq, ndata |-> 0]
    ELSE SetContentsDone(k, st, offset, chk, resp, PokedexKeyFromJson(resp.st, k.Id))

\* SetContentsFromStream: [err, n, key, st, nreq, ndata]
SetContentsFromStream(k, st, offset, p, contentType, keepTail) ==
    SetContentsSend(k, st, offset, checkExists(k, st),
                    SrvWrite(st, k.Id, OverwriteOffset(offset), p, contentType, keepTail))

\* PokedexKey.Move without the check of the response
KeyMoveIgnoreStatus(k, st, newName) ==
    [err |-> Nil, key |-> [k EXCEPT !.Name = newName],
     st |-> SrvRename(st, k.Name, newName).st, nreq |-> 1]

\* PokedexKey.Move with k.Name set before the response is checked
KeyMoveEager(k, st, newName) ==
    [err |-> CheckHTTPResponse(SrvRename(st, k.Name, newName).status, 200),
     key |-> [k EXCEPT !.Name = newName],
     st |-> SrvRename(st, k.Name, newName).st, nreq |-> 1]

\* PokedexKey.Move: [err, key, st, nreq]
KeyMove(k, st, newName) ==
    LET resp == SrvRename(st, k.Name, newName)
        respErr == CheckHTTPResponse(resp.status, 200)
    IN  IF respErr # Nil THEN [err |-> respErr, key |-> k, st |-> st, nreq |-> 1]
        ELSE [err |-> Nil, key |-> [k EXCEPT !.Name = newName], st |-> resp.st, nreq |-> 1]

\* PokedexKey.Delete without the request
KeyDeleteLocalOnly(k, st, missing) ==
    [err |-> Nil, key |-> [k EXCEPT !.deleted = TRUE], st |-> st, nreq |-> 0]

\* PokedexKey.Delete with the flag set whatever the response
KeyDeleteAlwaysMarks(k, st, missing) ==
    [err |-> CheckHTTPResponse(SrvDeleteKey(st, k.Name, missing).status, 200),
     key |-> [k EXCEPT !.deleted = TRUE],
     st |-> SrvDeleteKey(st, k.Name, missing).st, nreq |-> 1]

\* PokedexKey.Delete: [err, key, st, nreq]
KeyDelete(k, st, missing) ==
    LET resp == SrvDeleteKey(st, k.Name, missing)
        respErr == CheckHTTPResponse(resp.status, 200)
    IN  IF respErr # Nil THEN [err |-> respErr, key |-> k, st |-> st, nreq |-> 1]
        ELSE [err |-> Nil, key |-> [k EXCEPT !.deleted = TRUE], st |-> resp.st, nreq |-> 1]

----------------------------------------------------------------------------
(* bufio.Writer over pokedexWriter.  x is the Writer's mutable part together *)
(* with the service it talks to: [key, size, buf, berr, st, nreq, ndata].    *)

getContentType == "application/octet-stream"

\* PokedexKey.Size, as Driver.Writer and Driver.Stat use it
KeySize(k) == IF k.has THEN k.ContentLength ELSE 0

\* pokedexWriter.Write without pw.size += n
pokedexWriterWriteNoAdvance(x, p, keepTail) ==
    LET r == SetContentsFromStream(x.key, x.st, x.size, p, getContentType, keepTail)
    IN  [x |-> [x EXCEPT !.key = r.key, !.st = r.st,
                         !.nreq = @ + r.nreq, !.ndata = @ + r.ndata],
         n |-> r.n, err |-> r.err]

\* pw.size += n, with r what SetContentsFromStream returned
Advanced(x, r) ==
    [x |-> [x EXCEPT !.key = r.key, !.st = r.st, !.size = @ + r.n,
                     !.nreq = @ + r.nreq, !.ndata = @ + r.ndata],
     n |-> r.n, err |-> r.err]

\* pokedexWriter.Write: [x, n, err]
pokedexWriterWrite(x, p, keepTail) ==
    Advanced(x, SetContentsFromStream(x.key, x.st, x.size, p, getContentType, keepTail))

Available(x) == defaultChunkSize - Len(x.buf)

\* bufio.Writer.Flush after b.wr.Write returned r: a short write without an
\* error is io.ErrShortWrite; on an error the unwritten bytes stay buffered
FlushErr(x, r) == IF r.n < Len(x.buf) /\ r.err = Nil THEN ErrShortWrite ELSE r.err

Flushed(x, r) ==
    IF FlushErr(x, r) # Nil
    THEN [x |-> [r.x EXCEPT !.buf = SubSeq(x.buf, r.n + 1, Len(x.buf)),
                            !.berr = FlushErr(x, r)],
          err |-> FlushErr(x, r)]
    ELSE [x |-> [r.x EXCEPT !.buf = <<>>], err |-> Nil]

\* bufio.Writer.Flush: [x, err]
bufioFlush(x, keepTail) ==
    IF x.berr # Nil THEN [x |-> x, err |-> x.berr]
    ELSE IF Len(x.buf) = 0 THEN [x |-> x, err |-> Nil]
    ELSE Flushed(x, pokedexWriterWrite(x, x.buf, keepTail))

Panic == Err("panic: slice bounds out of range")

\* bufio.Writer.Write: [x, nn, err].  A direct write that reports more
\* bytes than it was given makes p[n:] panic.
RECURSIVE bufioWrite(_, _, _, _)
RECURSIVE bufioWriteDirect(_, _, _, _)
bufioWriteDirect(r, p, nn, keepTail) ==
    IF r.n > Len(p) THEN [x |-> [r.x EXCEPT !.berr = r.err], nn |-> 0, err |-> Panic]
    ELSE bufioWrite([r.x EXCEPT !.berr = r.err], SubSeq(p, r.n + 1, Len(p)),
                    nn + r.n, keepTail)

bufioWrite(x, p, nn, keepTail) ==
    IF Len(p) > Available(x) /\ x.berr = Nil
    THEN IF Len(x.buf) = 0
         THEN bufioWriteDirect(pokedexWriterWrite(x, p, keepTail), p, nn, keepTail)
         ELSE bufioWrite(bufioFlush([x EXCEPT !.buf = @ \o SubSeq(p, 1, Available(x))],
                                    keepTail).x,
                         SubSeq(p, Available(x) + 1, Len(p)), nn + Available(x), keepTail)
    ELSE IF x.berr # Nil THEN [x |-> x, nn |-> nn, err |-> x.berr]
    ELSE [x |-> [x EXCEPT !.buf = @ \o p], nn |-> nn + Len(p), err |-> Nil]

----------------------------------------------------------------------------
(* State *)

\* the FileWriter of Driver.Writer: writer{pw, bw, closed, committed,
\* cancelled}, pokedexWriter{key, size}, and bufio.Writer{buf, err}.
\* path, c0, acc and alone are history: the path it was opened on, the
\* content found there when appending, the bytes the write calls accepted,
\* and whether no other call has touched the store since it was opened.
NoWriter == [open |-> FALSE, path |-> <<>>, key |-> NoKey, size |-> 0,
             buf |-> <<>>, berr |-> Nil,
             closed |-> FALSE, committed |-> FALSE, cancelled |-> FALSE,
             c0 |-> <<>>, acc |-> <<>>, alone |-> TRUE]

\* a call record: what was called, with what, and what came back
NoCall == [op |-> "none", name |-> <<>>, name2 |-> <<>>, off |-> 0, p |-> <<>>,
           err |-> Nil, data |-> <<>>, n |-> 0, nreq |-> 0, ndata |-> 0,
           entries |-> <<>>, isDir |-> FALSE]

Init ==
    /\ store = [i \in Ids |-> NoRec]
    /\ nextId = 1
    /\ keys = [s \in Slots |-> NoKey]
    /\ w = NoWriter
    /\ last = NoCall

\* the handle's record is still the live record of its name
Live(k, st) == k.valid /\ st[k.Id].live /\ st[k.Id].name = k.Name

\* any change of the store by a call that is not the Writer's own
Touch(st2) == IF w.open /\ st2 # store THEN [w EXCEPT !.alone = FALSE] ELSE w

Keep(s, k) == IF s \in Slots THEN [keys EXCEPT ![s] = k] ELSE keys

----------------------------------------------------------------------------
(* Calls on the client and on key handles (the KeySuite's vocabulary) *)

\* a create that makes a record takes the next id
CanCreate(name, mode) == SrvLookup(store, name) = 0 => nextId <= MaxId

CallCreateKey(s, name, mode) ==
    /\ CanCreate(name, mode)
    /\ LET r == CreateKey(store, nextId, name, mode)
       IN  /\ store' = r.st
           /\ nextId' = r.nid
           /\ keys' = Keep(s, r.key)
           /\ w' = Touch(r.st)
           /\ last' = [NoCall EXCEPT !.op = "CreateKey", !.name = name,
                                     !.err = r.err, !.nreq = r.nreq]

CallGetKey(s, name) ==
    LET r == GetKey(store, name)
    IN  /\ keys' = Keep(s, r.key)
        /\ last' = [NoCall EXCEPT !.op = "GetKey", !.name = name,
                                  !.err = r.err, !.nreq = r.nreq,
                                  !.n = IF r.key.valid THEN 1 ELSE 0]
        /\ UNCHANGED <<store, nextId, w>>

CallClientDelete(prefix) ==
    LET r == ClientDelete(store, prefix)
    IN  /\ store' = r.st
        /\ w' = Touch(r.st)
        /\ last' = [NoCall EXCEPT !.op = "Client.Delete", !.name = prefix,
                                  !.err = r.err, !.n = r.n, !.nreq = r.nreq]
        /\ UNCHANGED <<nextId, keys>>

CallGetContentsAsStream(s, offset) ==
    /\ keys[s].valid
    /\ LET r == GetContentsAsStream(keys[s], store, offset)
       IN  /\ last' = [NoCall EXCEPT !.op = "GetContentsAsStream", !.off = offset,
                                     !.err = r.err, !.data = r.data,
                                     !.nreq = r.nreq, !.ndata = r.ndata]
           /\ UNCHANGED <<store, nextId, keys, w>>

CallSetContentsFromStream(s, offset, p, contentType, keepTail) ==
    /\ keys[s].valid
    /\ offset + Len(p) <= MaxLen
    /\ LET r == SetContentsFromStream(keys[s], store, offset, p, contentType, keepTail)
       IN  /\ store' = r.st
           /\ keys' = [keys EXCEPT ![s] = r.key]
           /\ w' = Touch(r.st)
           /\ last' = [NoCall EXCEPT !.op = "SetContentsFromStream", !.off = offset,
                                     !.p = p, !.err = r.err, !.n = r.n,
                                     !.nreq = r.nreq, !.ndata = r.ndata]
           /\ UNCHANGED nextId

CallKeyMove(s, newName) ==
    /\ keys[s].valid
    /\ LET r == KeyMove(keys[s], store, newName)
       IN  /\ store' = r.st
           /\ keys' = [keys EXCEPT ![s] = r.key]
           /\ w' = Touch(r.st)
           /\ last' = [NoCall EXCEPT !.op = "Key.Move", !.name = newName,
                                     !.err = r.err, !.nreq = r.nreq]
           /\ UNCHANGED nextId

CallKeyDelete(s, missing) ==
    /\ keys[s].valid
    /\ LET r == KeyDelete(keys[s], store, missing)
       IN  /\ store' = r.st
           /\ keys' = [keys EXCEPT ![s] = r.key]
           /\ w' = Touch(r.st)
           /\ last' = [NoCall EXCEPT !.op = "Key.Delete",
                                     !.err = r.err, !.nreq = r.nreq]
           /\ UNCHANGED nextId

\* the inputs that can change the outcome of a call in the current state
Modes(name) == IF SrvLookup(store, name) # 0 THEN {"conflict", "existing"} ELSE {"existing"}
KeepTails(k, offset, p) ==
    IF k.valid /\ offset # 0 /\ offset + Len(p) < Len(store[k.Id].data)
    THEN BOOLEAN ELSE {FALSE}
Missing(name) == IF SrvLookup(store, name) = 0 THEN {200, 404} ELSE {200}

\* the registry calls alone, over all names and prefixes
NextClient ==
    \/ \E s \in {0, 1}, name \in Names : \E mode \in Modes(name) :
            CallCreateKey(s, name, mode)
    \/ \E name \in Names : CallGetKey(1, name)
    \/ \E prefix \in Prefixes : CallClientDelete(prefix)

SpecClient == Init /\ [][NextClient]_vars

\* the content calls on one handle, whose record may be removed and the name
\* created again behind its back
KeyName == makePath(<<"/", "a">>)

NextKey ==
    \/ \E s \in {0, 1} : \E mode \in Modes(KeyName) : CallCreateKey(s, KeyName, mode)
    \/ CallGetKey(1, KeyName)
    \/ CallClientDelete(KeyName)
    \/ \E offset \in 0..MaxLen : CallGetContentsAsStream(1, offset)
    \/ \E offset \in 0..MaxLen, p \in Payloads :
            \E keepTail \in KeepTails(keys[1], offset, p) :
                \E t \in CTypes : CallSetContentsFromStream(1, offset, p, t, keepTail)

SpecKey == Init /\ [][NextKey]_vars

----------------------------------------------------------------------------
(* One handle through its whole life: content calls, Move and Delete, with  *)
(* the record removed or the name created again behind its back             *)

HandleNames == Names

NextHandle ==
    \/ \E s \in {0, 1}, name \in HandleNames : \E mode \in Modes(name) :
            CallCreateKey(s, name, mode)
    \/ \E name \in HandleNames : CallGetKey(1, name)
    \/ \E name \in HandleNames : CallClientDelete(name)
    \/ \E offset \in 0..1 : CallGetContentsAsStream(1, offset)
    \/ \E offset \in 0..1, t \in CTypes :
            \E keepTail \in KeepTails(keys[1], offset, <<1>>) :
                CallSetContentsFromStream(1, offset, <<1>>, t, keepTail)
    \/ \E newName \in HandleNames : CallKeyMove(1, newName)
    \/ \E missing \in Missing(keys[1].Name) : CallKeyDelete(1, missing)

SpecHandle == Init /\ [][NextHandle]_vars

----------------------------------------------------------------------------
(* The path adapter: Driver and its FileWriter *)

\* Driver.GetContent: [err, data, nreq, ndata]
GetContent(st, path) ==
    LET got == GetKey(st, makePath(path))
        r == GetContentsAsBytes(got.key, st)
    IN  IF got.err # Nil THEN [err |-> got.err, data |-> <<>>, nreq |-> 1, ndata |-> 0]
        ELSE IF ~got.key.valid
        THEN [err |-> PathNotFoundError, data |-> <<>>, nreq |-> 1, ndata |-> 0]
        ELSE [r EXCEPT !.nreq = @ + 1]

\* Driver.PutContent: [err, st, nid, nreq]
PutContent(st, nid, path, content, mode) ==
    LET made == CreateKey(st, nid, makePath(path), mode)
        r == SetContentsFromStream(made.key, made.st, 0, content, getContentType, FALSE)
    IN  IF made.err # Nil THEN [err |-> made.err, st |-> st, nid |-> nid, nreq |-> 1]
        ELSE IF ~made.key.valid
        THEN [err |-> Err("Failed to create key"), st |-> made.st, nid |-> made.nid, nreq |-> 1]
        ELSE [err |-> r.err, st |-> r.st, nid |-> made.nid, nreq |-> 1 + r.nreq]

\* Driver.Writer: [err, w, st, nid, nreq]
DriverWriter(st, nid, path, append, mode) ==
    LET got == IF append THEN [GetKey(st, makePath(path)) EXCEPT !.nid = nid]
               ELSE CreateKey(st, nid, makePath(path), mode)
        size == IF append THEN KeySize(got.key) ELSE 0
    IN  IF got.err # Nil
        THEN [err |-> got.err, w |-> NoWriter, st |-> st, nid |-> nid, nreq |-> 1]
        ELSE IF ~got.key.valid
        THEN [err |-> PathNotFoundError, w |-> NoWriter, st |-> got.st, nid |-> got.nid, nreq |-> 1]
        ELSE [err |-> Nil, st |-> got.st, nid |-> got.nid, nreq |-> 1,
              w |-> [NoWriter EXCEPT !.open = TRUE, !.path = path, !.key = got.key,
                                     !.size = size,
                                     !.c0 = IF append /\ got.key.has
                                            THEN got.st[got.key.Id].data ELSE <<>>]]

\* the bufio.Writer and pokedexWriter of a writer, facing the service st
Inner(wr, st) == [key |-> wr.key, size |-> wr.size, buf |-> wr.buf, berr |-> wr.berr,
                  st |-> st, nreq |-> 0, ndata |-> 0]
Outer(wr, x) == [wr EXCEPT !.key = x.key, !.size = x.size, !.buf = x.buf, !.berr = x.berr]

\* what writer.Write returns, with r what w.bw.Write returned
Written(wr, p, r) ==
    [err |-> r.err, n |-> r.nn,
     w |-> [Outer(wr, r.x) EXCEPT !.acc = @ \o SubSeq(p, 1, r.nn)],
     st |-> r.x.st, nreq |-> r.x.nreq, ndata |-> r.x.ndata]

\* what Commit and Close return, with f what w.bw.Flush returned: the flag
\* is set only when the flush succeeded
Committed(wr, f) ==
    [err |-> f.err,
     w |-> IF f.err # Nil THEN Outer(wr, f.x)
           ELSE [Outer(wr, f.x) EXCEPT !.committed = TRUE],
     st |-> f.x.st, nreq |-> f.x.nreq, ndata |-> f.x.ndata]

Closed(wr, f) ==
    [err |-> f.err,
     w |-> IF f.err # Nil THEN Outer(wr, f.x)
           ELSE [Outer(wr, f.x) EXCEPT !.closed = TRUE],
     st |-> f.x.st, nreq |-> f.x.nreq, ndata |-> f.x.ndata]

\* what Cancel returns, with r what w.pw.key.Delete returned
Cancelled(wr, r) ==
    [err |-> r.err, w |-> [wr EXCEPT !.cancelled = TRUE, !.key = r.key],
     st |-> r.st, nreq |-> r.nreq, ndata |-> 0]

\* writer.Write: [err, n, w, st, nreq, ndata]
WriterWrite(wr, st, p, keepTail) ==
    IF wr.closed
    THEN [err |-> AlreadyClosed, n |-> 0, w |-> wr, st |-> st, nreq |-> 0, ndata |-> 0]
    ELSE Written(wr, p, bufioWrite(Inner(wr, st), p, 0, keepTail))

\* writer.Commit without the Flush
WriterCommitNoFlush(wr, st, keepTail) ==
    IF wr.closed
    THEN [err |-> AlreadyClosed, w |-> wr, st |-> st, nreq |-> 0, ndata |-> 0]
    ELSE IF wr.committed
    THEN [err |-> AlreadyCommitted, w |-> wr, st |-> st, nreq |-> 0, ndata |-> 0]
    ELSE IF wr.cancelled
    THEN [err |-> AlreadyCancelled, w |-> wr, st |-> st, nreq |-> 0, ndata |-> 0]
    ELSE [err |-> Nil, w |-> [wr EXCEPT !.committed = TRUE], st |-> st,
          nreq |-> 0, ndata |-> 0]

\* writer.Commit: [err, w, st, nreq, ndata]
WriterCommit(wr, st, keepTail) ==
    IF wr.closed
    THEN [err |-> AlreadyClosed, w |-> wr, st |-> st, nreq |-> 0, ndata |-> 0]
    ELSE IF wr.committed
    THEN [err |-> AlreadyCommitted, w |-> wr, st |-> st, nreq |-> 0, ndata |-> 0]
    ELSE IF wr.cancelled
    THEN [err |-> AlreadyCancelled, w |-> wr, st |-> st, nreq |-> 0, ndata |-> 0]
    ELSE Committed(wr, bufioFlush(Inner(wr, st), keepTail))

\* writer.Close: [err, w, st, nreq, ndata]
WriterClose(wr, st, keepTail) ==
    IF wr.closed
    THEN [err |-> AlreadyClosed, w |-> wr, st |-> st, nreq |-> 0, ndata |-> 0]
    ELSE Closed(wr, bufioFlush(Inner(wr, st), keepTail))

\* writer.Cancel without the test of committed
WriterCancelUnchecked(wr, st, missing) ==
    IF wr.closed
    THEN [err |-> AlreadyClosed, w |-> wr, st |-> st, nreq |-> 0, ndata |-> 0]
    ELSE Cancelled(wr, KeyDelete(wr.key, st, missing))

\* writer.Cancel: [err, w, st, nreq, ndata]
WriterCancel(wr, st, missing) ==
    IF wr.closed
    THEN [err |-> AlreadyClosed, w |-> wr, st |-> st, nreq |-> 0, ndata |-> 0]
    ELSE IF wr.committed
    THEN [err |-> AlreadyCommitted, w |-> wr, st |-> st, nreq |-> 0, ndata |-> 0]
    ELSE Cancelled(wr, KeyDelete(wr.key, st, missing))

\* writer.Size without the buffered bytes
WriterSizeUploaded(wr) == wr.size

\* writer.Size
WriterSize(wr) == wr.size + Len(wr.buf)

\* Driver.Move: [err, st, nreq]
DriverMove(st, sourcePath, destPath, missing) ==
    LET src == GetKey(st, makePath(sourcePath))
        dst == GetKey(st, makePath(destPath))
        del == KeyDelete(dst.key, st, missing)
        st1 == IF dst.key.valid THEN del.st ELSE st
        n1 == IF dst.key.valid THEN 3 ELSE 2
        mv == KeyMove(src.key, st1, makePath(destPath))
    IN  IF src.err # Nil THEN [err |-> src.err, st |-> st, nreq |-> 1]
        ELSE IF ~src.key.valid THEN [err |-> PathNotFoundError, st |-> st, nreq |-> 1]
        ELSE IF dst.err # Nil THEN [err |-> dst.err, st |-> st, nreq |-> 2]
        ELSE IF dst.key.valid /\ del.err # Nil THEN [err |-> del.err, st |-> del.st, nreq |-> 3]
        ELSE [err |-> mv.err, st |-> mv.st, nreq |-> n1 + 1]

----------------------------------------------------------------------------
(* Calls on the adapter *)

CallPutContent(path, content, mode) ==
    /\ CanCreate(makePath(path), mode)
    /\ LET r == PutContent(store, nextId, path, content, mode)
       IN  /\ store' = r.st
           /\ nextId' = r.nid
           /\ w' = Touch(r.st)
           /\ last' = [NoCall EXCEPT !.op = "Driver.PutContent", !.name = path,
                                     !.err = r.err, !.nreq = r.nreq]
           /\ UNCHANGED keys

CallGetContent(path) ==
    LET r == GetContent(store, path)
    IN  /\ last' = [NoCall EXCEPT !.op = "Driver.GetContent", !.name = path,
                                  !.err = r.err, !.data = r.data,
                                  !.nreq = r.nreq, !.ndata = r.ndata]
        /\ UNCHANGED <<store, nextId, keys, w>>

CallWriter(path, append, mode) ==
    /\ append \/ CanCreate(makePath(path), mode)
    /\ LET r == DriverWriter(store, nextId, path, append, mode)
       IN  /\ store' = r.st
           /\ nextId' = r.nid
           /\ w' = IF r.err = Nil THEN r.w ELSE Touch(r.st)
           /\ last' = [NoCall EXCEPT !.op = "Driver.Writer", !.name = path,
                                     !.n = IF append THEN 1 ELSE 0,
                                     !.err = r.err, !.nreq = r.nreq]
           /\ UNCHANGED keys

CallWrite(p, keepTail) ==
    /\ w.open
    /\ WriterSize(w) + Len(p) <= MaxLen
    /\ LET r == WriterWrite(w, store, p, keepTail)
       IN  /\ store' = r.st
           /\ w' = r.w
           /\ last' = [NoCall EXCEPT !.op = "Writer.Write", !.n = r.n,
                                     !.err = r.err, !.nreq = r.nreq, !.ndata = r.ndata]
           /\ UNCHANGED <<nextId, keys>>

CallCommit(keepTail) ==
    /\ w.open
    /\ LET r == WriterCommit(w, store, keepTail)
       IN  /\ store' = r.st
           /\ w' = r.w
           /\ last' = [NoCall EXCEPT !.op = "Writer.Commit", !.err = r.err,
                                     !.nreq = r.nreq, !.ndata = r.ndata]
           /\ UNCHANGED <<nextId, keys>>

CallClose(keepTail) ==
    /\ w.open
    /\ LET r == WriterClose(w, store, keepTail)
       IN  /\ store' = r.st
           /\ w' = r.w
           /\ last' = [NoCall EXCEPT !.op = "Writer.Close", !.err = r.err,
                                     !.nreq = r.nreq, !.ndata = r.ndata]
           /\ UNCHANGED <<nextId, keys>>

CallCancel(missing) ==
    /\ w.open
    /\ LET r == WriterCancel(w, store, missing)
       IN  /\ store' = r.st
           /\ w' = r.w
           /\ last' = [NoCall EXCEPT !.op = "Writer.Cancel", !.err = r.err,
                                     !.nreq = r.nreq, !.ndata = r.ndata]
           /\ UNCHANGED <<nextId, keys>>

CallMove(sourcePath, destPath, missing) ==
    LET r == DriverMove(store, sourcePath, destPath, missing)
    IN  /\ store' = r.st
        /\ w' = Touch(r.st)
        /\ last' = [NoCall EXCEPT !.op = "Driver.Move", !.name = sourcePath,
                                  !.name2 = destPath, !.err = r.err, !.nreq = r.nreq]
        /\ UNCHANGED <<nextId, keys>>

\* whether the Writer's next upload can meet content beyond its end
WriterTails == IF w.open /\ w.key.valid /\ w.size < Len(store[w.key.Id].data)
               THEN BOOLEAN ELSE {FALSE}

\* one Writer at a time on one path, with whole-object puts on that path
\* before and while it is open
WriterPath == <<"/", "a">>

\* The adapter never looks into the bytes it is given.  The bytes handed to
\* a Writer are numbered by their position in what it has accepted so far
\* (loss, reordering or duplication of a byte shows in the content), and
\* whole-object puts store runs of the byte 9.
Seeds == {[i \in 1..k |-> 9] : k \in 0..(MaxLen - 1)}
NextBytes(k) == [i \in 1..k |-> Len(w.acc) + i]

NextWriter ==
    \/ \E content \in Seeds : \E mode \in Modes(makePath(WriterPath)) :
            CallPutContent(WriterPath, content, mode)
    \/ CallGetContent(WriterPath)
    \/ \E append \in BOOLEAN : \E mode \in Modes(makePath(WriterPath)) :
            CallWriter(WriterPath, append, mode)
    \/ \E k \in 0..MaxLen : \E keepTail \in WriterTails : CallWrite(NextBytes(k), keepTail)
    \/ \E keepTail \in WriterTails : CallCommit(keepTail)
    \/ \E keepTail \in WriterTails : CallClose(keepTail)
    \/ \E missing \in Missing(w.key.Name) : CallCancel(missing)

SpecWriter == Init /\ [][NextWriter]_vars

\* moves between the paths, over records made by whole-object puts
NextMove ==
    \/ \E path \in Paths, content \in Payloads : \E mode \in Modes(makePath(path)) :
            CallPutContent(path, content, mode)
    \/ \E path \in Paths : CallGetContent(path)
    \/ \E sourcePath \in Paths, destPath \in Paths : CallMove(sourcePath, destPath, 200)

SpecMove == Init /\ [][NextMove]_vars

----------------------------------------------------------------------------
(* Driver.Move request by request: the deletion of the destination and the *)
(* rename of the source are two requests, and the service serves other     *)
(* clients between them.                                                   *)

\* where a Move stands that has cleared the destination and has not yet
\* sent the rename
MovePending == "Driver.Move/rename"

\* Driver.Move from the fetch of the destination to the rename, with del
\* what destKey.Delete() returns: [err, go, key, st, nreq, n]; go says the
\* rename is next, key is sourceKey, n counts the records deleted
MoveDest(st, src, dst, del) ==
    IF dst.err # Nil
    THEN [err |-> dst.err, go |-> FALSE, key |-> NoKey, st |-> st, nreq |-> 2, n |-> 0]
    ELSE IF ~dst.key.valid
    THEN [err |-> Nil, go |-> TRUE, key |-> src.key, st |-> st, nreq |-> 2, n |-> 0]
    ELSE IF del.err # Nil
    THEN [err |-> del.err, go |-> FALSE, key |-> NoKey, st |-> del.st, nreq |-> 3, n |-> 0]
    ELSE [err |-> Nil, go |-> TRUE, key |-> src.key, st |-> del.st, nreq |-> 3, n |-> 1]

\* Driver.Move deleting the record of the source in place of the destination's
MoveSourceDeletesSource(st, src, dst, missing) ==
    IF src.err # Nil
    THEN [err |-> src.err, go |-> FALSE, key |-> NoKey, st |-> st, nreq |-> 1, n |-> 0]
    ELSE IF ~src.key.valid
    THEN [err |-> PathNotFoundError, go |-> FALSE, key |-> NoKey, st |-> st, nreq |-> 1, n |-> 0]
    ELSE MoveDest(st, src, dst, KeyDelete(src.key, st, missing))

\* Driver.Move from the fetch of the source, with src and dst what the two
\* GetKey calls return
MoveSource(st, src, dst, missing) ==
    IF src.err # Nil
    THEN [err |-> src.err, go |-> FALSE, key |-> NoKey, st |-> st, nreq |-> 1, n |-> 0]
    ELSE IF ~src.key.valid
    THEN [err |-> PathNotFoundError, go |-> FALSE, key |-> NoKey, st |-> st, nreq |-> 1, n |-> 0]
    ELSE MoveDest(st, src, dst, KeyDelete(dst.key, st, missing))

\* Driver.Move up to the rename
MoveClear(st, sourcePath, destPath, missing) ==
    MoveSource(st, GetKey(st, makePath(sourcePath)), GetKey(st, makePath(destPath)), missing)

\* the requests of Driver.Move before the rename
CallMoveClear(sourcePath, destPath, missing) ==
    /\ last.op # MovePending
    /\ store' = MoveClear(store, sourcePath, destPath, missing).st
    /\ keys' = [keys EXCEPT ![1] = MoveClear(store, sourcePath, destPath, missing).key]
    /\ w' = Touch(MoveClear(store, sourcePath, destPath, missing).st)
    /\ last' = [NoCall EXCEPT
                  !.op = IF MoveClear(store, sourcePath, destPath, missing).go
                         THEN MovePending ELSE "Driver.Move",
                  !.name = sourcePath, !.name2 = destPath,
                  !.err = MoveClear(store, sourcePath, destPath, missing).err,
                  !.nreq = MoveClear(store, sourcePath, destPath, missing).nreq,
                  !.n = MoveClear(store, sourcePath, destPath, missing).n]
    /\ UNCHANGED nextId

\* sourceKey.Move(fullDestPath), the last request of Driver.Move
CallMoveRename ==
    /\ last.op = MovePending
    /\ store' = KeyMove(keys[1], store, makePath(last.name2)).st
    /\ keys' = [keys EXCEPT ![1] = KeyMove(keys[1], store, makePath(last.name2)).key]
    /\ w' = Touch(KeyMove(keys[1], store, makePath(last.name2)).st)
    /\ last' = [last EXCEPT !.op = "Driver.Move",
                            !.err = KeyMove(keys[1], store, makePath(last.name2)).err,
                            !.nreq = @ + 1]
    /\ UNCHANGED nextId

\* another client's PutContent, served between the two requests of a Move
OtherPutContent(path, content, mode) ==
    /\ last.op = MovePending
    /\ CanCreate(makePath(path), mode)
    /\ store' = PutContent(store, nextId, path, content, mode).st
    /\ nextId' = PutContent(store, nextId, path, content, mode).nid
    /\ w' = Touch(PutContent(store, nextId, path, content, mode).st)
    /\ UNCHANGED <<keys, last>>

\* another client's Delete, served between the two requests of a Move
OtherDelete(path) ==
    /\ last.op = MovePending
    /\ store' = ClientDelete(store, makePath(path)).st
    /\ w' = Touch(ClientDelete(store, makePath(path)).st)
    /\ UNCHANGED <<nextId, keys, last>>

MoveContents == {<<1>>, <<2, 2>>}

NextMoveSteps ==
    \/ \E path \in Paths, content \in MoveContents : \E mode \in Modes(makePath(path)) :
            last.op # MovePending /\ CallPutContent(path, content, mode)
    \/ \E path \in Paths : last.op # MovePending /\ CallGetContent(path)
    \/ \E sourcePath \in Paths, destPath \in Paths : CallMoveClear(sourcePath, destPath, 200)
    \/ CallMoveRename
    \/ \E path \in Paths, content \in MoveContents : \E mode \in Modes(makePath(path)) :
            OtherPutContent(path, content, mode)
    \/ \E path \in Paths : OtherDelete(path)

SpecMoveSteps == Init /\ [][NextMoveSteps]_vars

----------------------------------------------------------------------------
(* Directories over the flat namespace: Driver.List, Stat and Delete *)

\* strings.Index: where sub first occurs in s, 0 when it does not
Index(s, sub) ==
    LET at == { i \in 1..(Len(s) - Len(sub) + 1) : SubSeq(s, i, i + Len(sub) - 1) = sub }
    IN  IF at = {} THEN 0 ELSE CHOOSE i \in at : \A j \in at : i <= j

\* strings.Replace(s, old, "", 1)
ReplaceFirst(s, old) ==
    IF old = <<>> \/ Index(s, old) = 0 THEN s
    ELSE SubSeq(s, 1, Index(s, old) - 1) \o SubSeq(s, Index(s, old) + Len(old), Len(s))

\* strings.Split(s, c): always at least one part
RECURSIVE Split(_, _)
Split(s, c) ==
    IF Index(s, <<c>>) = 0 THEN <<s>>
    ELSE <<SubSeq(s, 1, Index(s, <<c>>) - 1)>>
         \o Split(SubSeq(s, Index(s, <<c>>) + 1, Len(s)), c)

\* path.Clean on paths without dots: runs of slashes collapse, a trailing
\* slash goes unless the path is the root
RECURSIVE Squeeze(_)
Squeeze(s) ==
    IF Len(s) < 2 THEN s
    ELSE IF s[1] = "/" /\ s[2] = "/" THEN Squeeze(Tail(s))
    ELSE <<s[1]>> \o Squeeze(Tail(s))

Clean(s) ==
    IF Squeeze(s) = <<>> THEN <<".">>
    ELSE IF Len(Squeeze(s)) > 1 /\ Squeeze(s)[Len(Squeeze(s))] = "/"
    THEN SubSeq(Squeeze(s), 1, Len(Squeeze(s)) - 1)
    ELSE Squeeze(s)

\* goPath.Join(a, b): empty elements are ignored
goPathJoin(a, b) ==
    IF a = <<>> /\ b = <<>> THEN <<>>
    ELSE IF b = <<>> THEN Clean(a)
    ELSE IF a = <<>> THEN Clean(b)
    ELSE Clean(a \o <<"/">> \o b)

StringSliceContains(sl, n) == \E i \in 1..Len(sl) : sl[i] = n

\* The order in which GET keys?prefix= returns the records is not
\* documented; TestListKeys sees two keys in the order they were created,
\* which is also the order of their names.  `order` is "id" or "name".
CharRank(c) == CASE c = "/" -> 1 [] c = "a" -> 2 [] c = "b" -> 3 [] OTHER -> 4

RECURSIVE NameLess(_, _)
NameLess(a, b) ==
    IF b = <<>> THEN FALSE
    ELSE IF a = <<>> THEN TRUE
    ELSE IF Head(a) # Head(b) THEN CharRank(Head(a)) < CharRank(Head(b))
    ELSE NameLess(Tail(a), Tail(b))

Before(st, i, j, order) == IF order = "id" THEN i < j ELSE NameLess(st[i].name, st[j].name)

RECURSIVE InOrder(_, _, _)
InOrder(st, S, order) ==
    IF S = {} THEN <<>>
    ELSE LET first == CHOOSE i \in S : \A j \in S \ {i} : Before(st, i, j, order)
         IN  <<first>> \o InOrder(st, S \ {first}, order)

\* PokedexClient.List: [err, keys, nreq]
ClientList(st, prefix, order) ==
    [err |-> Nil, nreq |-> 1,
     keys |-> [n \in 1..Cardinality(SrvList(st, prefix)) |->
                    KeyOfRecord(st, InOrder(st, SrvList(st, prefix), order)[n])]]

\* the loop of Driver.List over the keys: [files, dirs]
RECURSIVE ListLoop(_, _, _, _, _)
ListChild(k, path, fullPath) ==
    Split(TrimLeft(ReplaceFirst(k.Name, fullPath), "/"), "/")

ListLoop(ks, path, fullPath, files, dirs) ==
    IF ks = <<>> THEN [files |-> files, dirs |-> dirs]
    ELSE IF Len(ListChild(Head(ks), path, fullPath)) = 1
    THEN ListLoop(Tail(ks), path, fullPath,
                  Append(files, goPathJoin(path, ListChild(Head(ks), path, fullPath)[1])), dirs)
    ELSE IF ~StringSliceContains(dirs, goPathJoin(path, ListChild(Head(ks), path, fullPath)[1]))
    THEN ListLoop(Tail(ks), path, fullPath, files,
                  Append(dirs, goPathJoin(path, ListChild(Head(ks), path, fullPath)[1])))
    ELSE ListLoop(Tail(ks), path, fullPath, files, dirs)

\* Driver.List without the exception for the root
ListResultRootToo(path, got, r) ==
    IF Len(r.files) = 0 /\ Len(r.dirs) = 0
    THEN [err |-> PathNotFoundError, entries |-> <<>>, nreq |-> got.nreq]
    ELSE [err |-> Nil, entries |-> r.files \o r.dirs, nreq |-> got.nreq]

\* an empty result is a missing directory, except at the root
ListResult(path, got, r) ==
    IF path # <<"/">> /\ Len(r.files) = 0 /\ Len(r.dirs) = 0
    THEN [err |-> PathNotFoundError, entries |-> <<>>, nreq |-> got.nreq]
    ELSE [err |-> Nil, entries |-> r.files \o r.dirs, nreq |-> got.nreq]

ListOf(path, got) ==
    IF got.err # Nil THEN [err |-> got.err, entries |-> <<>>, nreq |-> got.nreq]
    ELSE ListResult(path, got, ListLoop(got.keys, path, makePath(path), <<>>, <<>>))

\* Driver.List: [err, entries, nreq]
DriverList(st, path, order) == ListOf(path, ClientList(st, makePath(path), order))

\* Driver.Stat: [err, isDir, size, nreq]
StatOf(key, subKeys) ==
    IF key.err # Nil THEN [err |-> key.err, isDir |-> FALSE, size |-> 0, nreq |-> 1]
    ELSE IF key.key.valid
    THEN [err |-> Nil, isDir |-> FALSE, size |-> KeySize(key.key), nreq |-> 1]
    ELSE IF subKeys.err # Nil
    THEN [err |-> subKeys.err, isDir |-> FALSE, size |-> 0, nreq |-> 2]
    ELSE IF Len(subKeys.keys) > 0
    THEN [err |-> Nil, isDir |-> TRUE, size |-> 0, nreq |-> 2]
    ELSE [err |-> PathNotFoundError, isDir |-> FALSE, size |-> 0, nreq |-> 2]

DriverStat(st, path) ==
    StatOf(GetKey(st, makePath(path)), ClientList(st, makePath(path), "id"))

\* Driver.Delete: [err, st, nreq]
DeleteOf(st, r) ==
    IF r.err # Nil THEN [err |-> r.err, st |-> st, nreq |-> r.nreq]
    ELSE IF r.n = 0 THEN [err |-> PathNotFoundError, st |-> r.st, nreq |-> r.nreq]
    ELSE [err |-> Nil, st |-> r.st, nreq |-> r.nreq]

DriverDelete(st, path) == DeleteOf(st, ClientDelete(st, makePath(path)))

CallList(path, order) ==
    LET r == DriverList(store, path, order)
    IN  /\ last' = [NoCall EXCEPT !.op = "Driver.List", !.name = path, !.err = r.err,
                                  !.entries = r.entries, !.nreq = r.nreq]
        /\ UNCHANGED <<store, nextId, keys, w>>

CallStat(path) ==
    LET r == DriverStat(store, path)
    IN  /\ last' = [NoCall EXCEPT !.op = "Driver.Stat", !.name = path, !.err = r.err,
                                  !.isDir = r.isDir, !.n = r.size, !.nreq = r.nreq]
        /\ UNCHANGED <<store, nextId, keys, w>>

CallDelete(path) ==
    LET r == DriverDelete(store, path)
    IN  /\ store' = r.st
        /\ w' = Touch(r.st)
        /\ last' = [NoCall EXCEPT !.op = "Driver.Delete", !.name = path, !.err = r.err,
                                  !.nreq = r.nreq]
        /\ UNCHANGED <<nextId, keys>>

\* the paths objects are put at, and the paths that are listed, examined
\* and deleted
FilePaths == { <<"/", "a">>, <<"/", "a", "/", "b">>, <<"/", "a", "/", "b", "/", "a">>,
               <<"/", "a", "/", "b", "/", "b">>, <<"/", "a", "b", "/", "a">>, <<"/", "b">> }
DirPaths == { <<"/">>, <<"/", "a">>, <<"/", "a", "/", "b">>, <<"/", "b">>, <<"/", "a", "b">> }

\* each object is put once, with a content whose length depends on its path
ContentAt(path) == SubSeq(<<1, 2>>, 1, Len(path) % 3)

Orders(path) == IF Cardinality(SrvList(store, makePath(path))) > 1
                THEN {"id", "name"} ELSE {"id"}

NextList ==
    \/ \E path \in FilePaths :
            /\ SrvLookup(store, makePath(path)) = 0
            /\ CallPutContent(path, ContentAt(path), "existing")
    \/ \E path \in DirPaths : \E order \in Orders(path) : CallList(path, order)
    \/ \E path \in DirPaths : CallStat(path)
    \/ \E path \in DirPaths : CallDelete(path)

SpecList == Init /\ [][NextList]_vars

----------------------------------------------------------------------------
(* A Writer whose path is deleted and put again while it is open *)

NextCancel ==
    \/ \E content \in Seeds : \E mode \in Modes(makePath(WriterPath)) :
            CallPutContent(WriterPath, content, mode)
    \/ CallDelete(WriterPath)
    \/ \E append \in BOOLEAN : \E mode \in Modes(makePath(WriterPath)) :
            CallWriter(WriterPath, append, mode)
    \/ \E k \in 0..MaxLen : \E keepTail \in WriterTails : CallWrite(NextBytes(k), keepTail)
    \/ \E keepTail \in WriterTails : CallCommit(keepTail)
    \/ \E keepTail \in WriterTails : CallClose(keepTail)
    \/ \E missing \in Missing(w.key.Name) : CallCancel(missing)

SpecCancel == Init /\ [][NextCancel]_vars

----------------------------------------------------------------------------
(* Reader and URLFor, and the calls that answer for a path without a record *)

\* Driver.Reader without the test for a nil key
ReaderOfUnchecked(got, st, offset) ==
    IF got.err # Nil THEN [err |-> got.err, data |-> <<>>, nreq |-> 1, ndata |-> 0]
    ELSE [GetContentsAsStream(got.key, st, offset) EXCEPT !.nreq = @ + 1]

\* Driver.Reader after GetKey: [err, data, nreq, ndata]
ReaderOf(got, st, offset) ==
    IF got.err # Nil THEN [err |-> got.err, data |-> <<>>, nreq |-> 1, ndata |-> 0]
    ELSE IF ~got.key.valid
    THEN [err |-> PathNotFoundError, data |-> <<>>, nreq |-> 1, ndata |-> 0]
    ELSE [GetContentsAsStream(got.key, st, offset) EXCEPT !.nreq = @ + 1]

DriverReader(st, path, offset) == ReaderOf(GetKey(st, makePath(path)), st, offset)

\* PokedexKey.DataUrl: the URL names the data host and the key's id
DataUrl(k) == k.Id

\* Driver.URLFor: [err, url, nreq]
URLForOf(got) ==
    IF got.err # Nil THEN [err |-> got.err, url |-> 0, nreq |-> 1]
    ELSE IF ~got.key.valid THEN [err |-> PathNotFoundError, url |-> 0, nreq |-> 1]
    ELSE [err |-> Nil, url |-> DataUrl(got.key), nreq |-> 1]

URLFor(st, path) == URLForOf(GetKey(st, makePath(path)))

CallReader(path, offset) ==
    LET r == DriverReader(store, path, offset)
    IN  /\ last' = [NoCall EXCEPT !.op = "Driver.Reader", !.name = path, !.off = offset,
                                  !.err = r.err, !.data = r.data,
                                  !.nreq = r.nreq, !.ndata = r.ndata]
        /\ UNCHANGED <<store, nextId, keys, w>>

CallURLFor(path) ==
    LET r == URLFor(store, path)
    IN  /\ last' = [NoCall EXCEPT !.op = "Driver.URLFor", !.name = path,
                                  !.err = r.err, !.n = r.url, !.nreq = r.nreq]
        /\ UNCHANGED <<store, nextId, keys, w>>

\* every call that resolves a path to a key, on paths with and without a
\* record
NextPaths ==
    \/ \E path \in Paths :
            /\ SrvLookup(store, makePath(path)) = 0
            /\ CallPutContent(path, ContentAt(path), "existing")
    \/ \E path \in Paths : CallDelete(path)
    \/ \E path \in Paths : CallGetContent(path)
    \/ \E path \in Paths, offset \in 0..1 : CallReader(path, offset)
    \/ \E path \in Paths : CallWriter(path, TRUE, "existing")
    \/ \E src \in Paths, dst \in Paths : CallMove(src, dst, 200)
    \/ \E path \in Paths : CallURLFor(path)

SpecPaths == Init /\ [][NextPaths]_vars

----------------------------------------------------------------------------
(* Properties of the registry client and the key handle *)

\* the content length the service holds for the handle's record (0 when
\* nothing was written yet)
CurLen(k, st) == IF st[k.Id].has THEN Len(st[k.Id].data) ELSE 0

SecondHalf(b) == SubSeq(b, (Len(b) \div 2) + 1, Len(b))

Drained(r, data) == r.err = Nil /\ r.data = data

\* C1: content round trip.  Right after SetContentsFromStream(0, b, t) has
\* returned no error, GetContentsAsStream(0) drained is exactly b and
\* GetContentsAsStream(len(b) - len(b[len(b)/2:])) drained is exactly the
\* second half b[len(b)/2:], for every payload b and content type t.
C1_RoundTrip ==
    (last.op = "SetContentsFromStream" /\ last.err = Nil /\ last.off = 0) =>
        LET b == last.p
            half == SecondHalf(b)
        IN  /\ Drained(GetContentsAsStream(keys[1], store, 0), b)
            /\ Drained(GetContentsAsStream(keys[1], store, Len(b) - Len(half)), half)

C1_Witness ==
    /\ last.op = "SetContentsFromStream" /\ last.err = Nil /\ last.off = 0
    /\ last.p = <<1, 2>>
    /\ keys[1].ContentType = "application/octet-stream"

\* C2: append law.  A SetContentsFromStream that returns no error and was
\* called with offset 0, or with the offset equal to the content length the
\* record had, leaves the content (old content from offset 0 on dropped when
\* the offset is 0) followed by the payload, a full read returns it, and the
\* call returns the payload's length as its count.
C2_Append ==
    [][ (last'.op = "SetContentsFromStream" /\ last'.err = Nil
            /\ (last'.off = 0 \/ last'.off = CurLen(keys[1], store))) =>
        LET old == IF last'.off = 0 THEN <<>> ELSE store[keys[1].Id].data
        IN  /\ last'.n = Len(last'.p)
            /\ Drained(GetContentsAsBytes(keys'[1], store'), old \o last'.p) ]_vars

C2_Witness ==
    /\ last.op = "SetContentsFromStream" /\ last.err = Nil
    /\ last.off = 1 /\ last.p = <<2>> /\ last.n = 1
    /\ store[keys[1].Id].data = <<1, 2>>

\* C7: absence is not a failure.  GetKey on a name that has no live record
\* returns the nil key and no error, and so does every GetKey call made.
C7_AbsentIsNil ==
    /\ \A name \in Names : SrvLookup(store, name) = 0 =>
            LET r == GetKey(store, name) IN r.err = Nil /\ ~r.key.valid
    /\ (last.op = "GetKey" /\ SrvLookup(store, last.name) = 0) =>
            (last.err = Nil /\ last.n = 0 /\ keys[1] = NoKey)

C7_Witness ==
    /\ last.op = "GetKey" /\ SrvLookup(store, last.name) = 0
    /\ \E i \in Ids : store[i].live

\* C8: root deletion guard.  PokedexClient.Delete with prefix "" or "/"
\* returns an error and count 0, sends no request, and leaves every record
\* as it was.
C8_RootGuard ==
    [][ (last'.op = "Client.Delete" /\ last'.name \in {<<>>, <<"/">>}) =>
        (last'.err = RootPrefixError /\ last'.n = 0 /\ last'.nreq = 0 /\ store' = store) ]_vars

C8_Witness ==
    /\ last.op = "Client.Delete" /\ last.name = <<>>
    /\ Cardinality({i \in Ids : store[i].live}) = 2

C10_FreshKeyRead404 ==
    (Live(keys[1], store) /\ ~store[keys[1].Id].has) =>
        /\ GetContentsAsStream(keys[1], store, 0).err = RequestError(404)
        /\ GetContentsAsBytes(keys[1], store).err = RequestError(404)
        /\ (last.op = "GetContentsAsStream" /\ last.off = 0) =>
                (last.err = RequestError(404) /\ last.data = <<>>)

C10_Witness ==
    /\ last.op = "GetContentsAsStream" /\ last.off = 0 /\ last.err = RequestError(404)
    /\ Live(keys[1], store) /\ ~store[keys[1].Id].has /\ ~keys[1].has

----------------------------------------------------------------------------
(* Properties of the Writer and of Move *)

\* the part of the accepted bytes the Writer has uploaded
Uploaded(wr) == SubSeq(wr.acc, 1, Len(wr.acc) - Len(wr.buf))

\* C3: Writer durability.  For a Writer no other call has interfered with
\* and that was not cancelled: once Close or Commit returns no error and at
\* least one byte was accepted, a full read of the path returns the content
\* found when it was opened for append (empty otherwise) followed by all
\* accepted bytes.  Before that, while no upload has failed, the buffer
\* holds the accepted bytes not yet uploaded, pw.size (the offset of the
\* next upload) is the initial size plus the bytes uploaded, and once a chunk
\* went up the stored content is exactly that: no gap, no overlap.
C3_Durable ==
    (w.open /\ w.alone /\ ~w.cancelled) =>
        /\ (last.op \in {"Writer.Close", "Writer.Commit"} /\ last.err = Nil
                /\ Len(w.acc) >= 1) =>
               Drained(GetContent(store, w.path), w.c0 \o w.acc)
        /\ w.berr = Nil =>
               /\ Len(w.buf) <= Len(w.acc)
               /\ w.buf = SubSeq(w.acc, Len(w.acc) - Len(w.buf) + 1, Len(w.acc))
               /\ w.size = Len(w.c0) + Len(Uploaded(w))
               /\ w.size > 0 =>
                      /\ Live(w.key, store) /\ store[w.key.Id].has
                      /\ store[w.key.Id].data = w.c0 \o Uploaded(w)

C3_Witness ==
    /\ last.op = "Writer.Close" /\ last.err = Nil /\ last.ndata = 1
    /\ w.alone /\ ~w.committed /\ ~w.cancelled
    /\ Len(w.c0) = 0 /\ Len(w.acc) = MaxLen /\ w.size = MaxLen
    /\ Drained(GetContent(store, w.path), w.acc)

\* C4: idempotent close after commit.  A Close called right after a Commit
\* that returned no error returns no error, sends nothing and leaves the
\* store as it was.
C4_CloseAfterCommit ==
    [][ (last.op = "Writer.Commit" /\ last.err = Nil /\ last'.op = "Writer.Close") =>
        (last'.err = Nil /\ last'.nreq = 0 /\ store' = store) ]_vars

C4_Witness ==
    /\ last.op = "Writer.Close" /\ last.err = Nil /\ last.nreq = 0
    /\ w.committed /\ w.closed /\ w.alone
    /\ Len(w.acc) >= 1 /\ Drained(GetContent(store, w.path), w.c0 \o w.acc)

\* C5: cancel law.  After Cancel on a Writer that was neither closed nor
\* committed, whatever was written before (buffered or uploaded), no
\* record is left at the Writer's path: GetKey returns the nil key.
C5_CancelLeavesNothing ==
    (last.op = "Writer.Cancel" /\ last.err \notin {AlreadyClosed, AlreadyCommitted}) =>
        LET r == GetKey(store, makePath(w.path))
        IN  r.err = Nil /\ ~r.key.valid

C5_Witness ==
    /\ last.op = "Writer.Cancel" /\ last.err = Nil
    /\ w.cancelled /\ w.size = MaxLen /\ Len(w.acc) = MaxLen
    /\ SrvLookup(store, makePath(w.path)) = 0

\* C6: move law.  When Driver.Move returns no error, the source path has
\* no record, and the destination path has the source's record (same id,
\* same content and metadata) under the destination's name; a record the
\* destination held before is gone.
C6_Move ==
    [][ (last'.op = "Driver.Move" /\ last'.err = Nil) =>
        LET src == makePath(last'.name)
            dst == makePath(last'.name2)
            i == SrvLookup(store, src)
            j == SrvLookup(store, dst)
            got == GetKey(store', dst)
        IN  /\ i # 0
            /\ ~GetKey(store', src).key.valid /\ GetKey(store', src).err = Nil
            /\ got.err = Nil /\ got.key.valid /\ got.key.Name = dst /\ got.key.Id = i
            /\ store'[i] = [store[i] EXCEPT !.name = dst]
            /\ GetContent(store', last'.name2) = GetContent(store, last'.name)
            /\ j # 0 => (j # i /\ ~store'[j].live) ]_vars

C6_Witness ==
    /\ last.op = "Driver.Move" /\ last.err = Nil /\ last.nreq = 4
    /\ Drained(GetContent(store, last.name2), <<1, 2>>)
    /\ GetContent(store, last.name).err = PathNotFoundError


----------------------------------------------------------------------------
(* Properties of List, Stat and Delete *)

LiveNames(st) == { st[i].name : i \in { j \in Ids : st[j].live } }

\* what follows the path's prefix in the names that start with it
Remainders(st, path) ==
    { TrimLeft(SubSeq(n, Len(makePath(path)) + 1, Len(n)), "/") :
        n \in { m \in LiveNames(st) : HasPrefix(m, makePath(path)) } }

FileChildren(st, path) ==
    { goPathJoin(path, Split(r, "/")[1]) :
        r \in { q \in Remainders(st, path) : Len(Split(q, "/")) = 1 } }

DirChildren(st, path) ==
    { goPathJoin(path, Split(r, "/")[1]) :
        r \in { q \in Remainders(st, path) : Len(Split(q, "/")) > 1 } }

EntrySet(entries) == { entries[i] : i \in 1..Len(entries) }

NoDuplicates(entries) ==
    \A i, j \in 1..Len(entries) : i # j => entries[i] # entries[j]

\* C11: Driver.List returns exactly one entry per distinct first segment
\* after the path's prefix in the key names, a file child when the segment is
\* the whole remainder and a directory child otherwise, and no child path
\* twice.
C11_OneEntryPerChild ==
    (last.op = "Driver.List" /\ last.err = Nil) =>
        /\ EntrySet(last.entries) = FileChildren(store, last.name) \cup DirChildren(store, last.name)
        /\ NoDuplicates(last.entries)

\* the names below a path: the path's name, a '/', and more
DirPrefix(path) == TrimRight(makePath(path), "/") \o <<"/">>

Below(n, path) == HasPrefix(n, DirPrefix(path)) /\ Len(n) > Len(DirPrefix(path))

FirstSegmentBelow(n, path) ==
    Split(SubSeq(n, Len(DirPrefix(path)) + 1, Len(n)), "/")[1]

\* C12: every entry Driver.List returns is the path joined with the next
\* segment of a live key whose name is the path's name, a '/', and more.
C12_DirectDescendantsOnly ==
    (last.op = "Driver.List" /\ last.err = Nil) =>
        \A e \in EntrySet(last.entries) :
            \E n \in LiveNames(store) :
                Below(n, last.name) /\ e = goPathJoin(last.name, FirstSegmentBelow(n, last.name))

C14_StatClassifies ==
    (last.op = "Driver.Stat") =>
        IF makePath(last.name) \in LiveNames(store)
        THEN /\ last.err = Nil /\ ~last.isDir
             /\ last.n = CurLen(KeyOfRecord(store, SrvLookup(store, makePath(last.name))), store)
        ELSE IF SrvList(store, makePath(last.name)) # {}
        THEN last.err = Nil /\ last.isDir
        ELSE IF last.name = <<"/">>
        THEN last.err = Nil
        ELSE last.err = PathNotFoundError

\* C15: Driver.Delete removes exactly the live records named by the path or
\* below it, changes no other record, and returns PathNotFoundError exactly
\* when it removed none.
AtOrBelow(n, path) == n = makePath(path) \/ Below(n, path)

C15_DeleteExactlySubtree ==
    [][ last'.op = "Driver.Delete" =>
          /\ \A i \in Ids :
                store'[i] = IF store[i].live /\ AtOrBelow(store[i].name, last'.name)
                            THEN NoRec ELSE store[i]
          /\ (last'.err = PathNotFoundError) <=> (store' = store) ]_vars


----------------------------------------------------------------------------
(* Properties of the Writer's states *)

Terminal(wr) == wr.committed \/ wr.cancelled

\* C16: once the Writer is committed or cancelled, a write returns an
\* error, accepts no byte, leaves Size() as it was and changes no record.
C16_WriteOnTerminalFails ==
    [][ (w.open /\ Terminal(w) /\ last'.op = "Writer.Write") =>
            /\ last'.err # Nil
            /\ last'.n = 0
            /\ WriterSize(w') = WriterSize(w)
            /\ store' = store ]_vars

\* C17: the Writer is never both committed and cancelled; Commit on a
\* cancelled Writer and Cancel on a committed Writer return an error and
\* change neither the Writer nor the store.
C17_TerminalExclusive ==
    [][ /\ ~(w'.committed /\ w'.cancelled)
        /\ (w.open /\ w.cancelled /\ last'.op = "Writer.Commit") =>
                (last'.err # Nil /\ w' = w /\ store' = store)
        /\ (w.open /\ w.committed /\ last'.op = "Writer.Cancel") =>
                (last'.err # Nil /\ w' = w /\ store' = store) ]_vars

C17_Witness ==
    /\ w.open /\ w.committed /\ ~w.cancelled /\ ~w.closed
    /\ last.op = "Writer.Cancel" /\ last.err = AlreadyCommitted
    /\ Live(w.key, store)

\* C18: Close on a committed or cancelled Writer returns no error, sends no
\* request and changes neither the store nor the Writer (its closed flag
\* aside).
C18_CloseOnTerminalNoOp ==
    [][ (w.open /\ Terminal(w) /\ last'.op = "Writer.Close") =>
            /\ last'.err = Nil
            /\ last'.nreq = 0
            /\ store' = store
            /\ [w' EXCEPT !.closed = w.closed] = w ]_vars

\* C19: while no other call changes the store under it, Size() of the
\* Writer is its initial size (the content length found when appending,
\* else zero) plus the bytes its write calls accepted, uploaded or buffered.
C19_SizeCountsAccepted ==
    (w.open /\ w.alone) => WriterSize(w) = Len(w.c0) + Len(w.acc)

C19_Witness ==
    /\ w.open /\ w.alone /\ ~Terminal(w) /\ ~w.closed
    /\ last.op = "Writer.Write" /\ last.err = Nil
    /\ w.c0 = <<>> /\ w.size = 1 /\ Len(w.buf) = 1 /\ Len(w.acc) = 2
    /\ WriterSize(w) = 2


----------------------------------------------------------------------------
(* Properties of the path lookup *)

ResolvingCalls == {"Driver.GetContent", "Driver.Reader", "Driver.Move", "Driver.URLFor"}

\* C20: GetContent, Reader, Writer with append, Move (for its source) and
\* URLFor, called on a path without a live record, return
\* PathNotFoundError and create, change or delete no record.
C20_PathNotFound ==
    [][ ( /\ \/ last'.op \in ResolvingCalls
             \/ last'.op = "Driver.Writer" /\ last'.n = 1
          /\ SrvLookup(store, makePath(last'.name)) = 0 ) =>
            /\ last'.err = PathNotFoundError
            /\ store' = store
            /\ nextId' = nextId ]_vars

C20_Witness ==
    /\ last.op = "Driver.Reader" /\ last.name = <<"/", "a">>
    /\ last.err = PathNotFoundError /\ last.nreq = 1
    /\ SrvLookup(store, makePath(<<"/", "a">>)) = 0
    /\ SrvLookup(store, makePath(<<"/", "a", "b">>)) # 0


----------------------------------------------------------------------------
(* Properties of a handle over its life *)

ContentCalls == {"GetContentsAsStream", "SetContentsFromStream"}
MutatingCalls == {"SetContentsFromStream", "Key.Move", "Key.Delete"}
HandleCalls == ContentCalls \cup MutatingCalls

\* C21: a read or write on a handle whose deleted flag is set fails with
\* KeyDoesNotExist and sends no request; with the flag clear and no live
\* record of the handle's name, it fails with KeyDoesNotExist and sends
\* nothing to the data endpoint.
C21_StaleHandle ==
    [][ (last'.op \in ContentCalls) =>
          /\ keys[1].deleted =>
                (last'.err = KeyDoesNotExist /\ last'.nreq = 0 /\ store' = store)
          /\ (~keys[1].deleted /\ SrvLookup(store, keys[1].Name) = 0) =>
                (last'.err = KeyDoesNotExist /\ last'.ndata = 0 /\ store' = store) ]_vars

C21_Witness ==
    /\ last.op = "SetContentsFromStream" /\ last.err = KeyDoesNotExist
    /\ last.nreq = 1 /\ last.ndata = 0
    /\ keys[1].valid /\ ~keys[1].deleted
    /\ SrvLookup(store, keys[1].Name) = 0

\* C22: no call on a handle resets its deleted flag, and a read or write on
\* it fails with KeyDoesNotExist from then on, also when the name has a
\* record again.
C22_DeletedIsTerminal ==
    [][ (keys[1].deleted /\ last'.op \in HandleCalls) =>
          /\ keys'[1].deleted
          /\ last'.op \in ContentCalls => last'.err = KeyDoesNotExist ]_vars

C22_Witness ==
    /\ keys[1].deleted
    /\ last.op = "SetContentsFromStream" /\ last.err = KeyDoesNotExist
    /\ SrvLookup(store, keys[1].Name) # 0

\* C23, as claimed: after Delete returns, the handle's deleted flag is set.
C23_DeleteAlwaysMarks == (last.op = "Key.Delete") => keys[1].deleted

\* C23, amended: Delete sets the flag when the request succeeded and leaves
\* the handle as it was when it failed.
C23_DeleteMarksOnSuccess ==
    [][ (last'.op = "Key.Delete") =>
          keys'[1] = IF last'.err = Nil THEN [keys[1] EXCEPT !.deleted = TRUE]
                     ELSE keys[1] ]_vars

C23_Witness ==
    /\ last.op = "Key.Delete" /\ last.err = RequestError(404)
    /\ keys[1].valid /\ ~keys[1].deleted

\* C24: a write, Move or Delete on a handle whose deleted flag is set fails
\* with KeyDoesNotExist and sends no request.
C24_GuardOnMutations ==
    [][ (keys[1].deleted /\ last'.op \in MutatingCalls) =>
            (last'.err = KeyDoesNotExist /\ last'.nreq = 0) ]_vars

\* C25: a successful write changes only the handle's content length, type
\* and checksum, a successful Move only its name, and a failed write or
\* Move nothing.
C25_CacheOnlyOnSuccess ==
    [][ /\ (last'.op = "SetContentsFromStream") =>
              IF last'.err = Nil
              THEN /\ \A f \in {"valid", "Id", "Name", "deleted"} : keys'[1][f] = keys[1][f]
                   /\ keys'[1] = KeyOfRecord(store', keys[1].Id)
              ELSE keys'[1] = keys[1]
        /\ (last'.op = "Key.Move") =>
              keys'[1] = IF last'.err = Nil THEN [keys[1] EXCEPT !.Name = last'.name]
                         ELSE keys[1] ]_vars

C25_Witness ==
    /\ last.op = "Key.Move" /\ last.err = RequestError(409)
    /\ keys[1].valid /\ keys[1].Name # last.name
    /\ Live(keys[1], store)


----------------------------------------------------------------------------
(* Properties of Driver.Move                                               *)

\* the step in which a Move deleted the destination's record
ClearedDest == last.op # MovePending /\ last'.op = MovePending /\ last'.n = 1

\* the step in which the rename of a Move failed after the destination's
\* record was deleted
RenameFailed ==
    last.op = MovePending /\ last'.op = "Driver.Move" /\ last'.err # Nil /\ last'.n = 1

\* C26 as stated: once Driver.Move has deleted the record it found at the
\* destination, the state it leaves when it stops there, and the state it
\* leaves when the rename fails, have no live record at the source path and
\* none at the destination path.
C26_NeitherPopulated ==
    [][ (ClearedDest \/ RenameFailed) =>
            /\ SrvLookup(store', makePath(last'.name)) = 0
            /\ SrvLookup(store', makePath(last'.name2)) = 0 ]_vars

\* C26, amended: the deletion removes the destination's record and nothing
\* else, so right after it the destination path has no live record and, for
\* a source path different from the destination, the source's record is
\* still live under its name with its content; a rename that fails leaves
\* the store as it found it.  Only for equal paths is neither populated.
C26_SourceSurvivesWindow ==
    [][ /\ ClearedDest =>
              /\ SrvLookup(store, makePath(last'.name2)) # 0
              /\ store' = [store EXCEPT ![SrvLookup(store, makePath(last'.name2))] = NoRec]
              /\ SrvLookup(store', makePath(last'.name2)) = 0
              /\ (last'.name # last'.name2) =>
                    /\ SrvLookup(store', makePath(last'.name)) # 0
                    /\ SrvLookup(store', makePath(last'.name))
                          = SrvLookup(store, makePath(last'.name))
                    /\ keys'[1].Id = SrvLookup(store', makePath(last'.name))
                    /\ GetContent(store', last'.name) = GetContent(store, last'.name)
        /\ RenameFailed => store' = store ]_vars

C26_Witness ==
    /\ last.op = MovePending /\ last.n = 1 /\ last.nreq = 3
    /\ last.name # last.name2
    /\ Live(keys[1], store) /\ keys[1].Name = makePath(last.name)
    /\ GetContent(store, last.name).err = Nil
    /\ SrvLookup(store, makePath(last.name2)) = 0

\* C28: Driver.Move never loses the source's content.  With no other
\* client acting, whatever the two paths (equal paths included) and whether
\* Move returns an error or not, the content GetContent returned for the
\* source path before the call is returned for the source path or for the
\* destination path after it.
C28_MoveKeepsContent ==
    [][ (last'.op = "Driver.Move" /\ GetContent(store, last'.name).err = Nil) =>
            \/ GetContent(store', last'.name) = GetContent(store, last'.name)
            \/ GetContent(store', last'.name2) = GetContent(store, last'.name) ]_vars

----------------------------------------------------------------------------
(* Properties of a cancelled Writer                                        *)

WriterCalls == {"Writer.Write", "Writer.Close", "Writer.Commit"}

\* C27: no upload outlives Cancel.  Once Cancel has gone through on a
\* Writer (its cancelled flag is set, whether Cancel returned an error or
\* not), no later Write, Close or Commit on that Writer sends a request to
\* the data endpoint.
C27_NoUploadAfterCancel ==
    [][ (w.open /\ w.cancelled /\ last'.op \in WriterCalls) => last'.ndata = 0 ]_vars

=============================================================================
